---- MODULE Spec2Model ----
(***************************************************************************)
(* Model of simple_parsing/wrappers.py: FieldWrapper (the derivation of a *)
(* field's argparse options and its cache) and DataclassWrapper (the      *)
(* cascading properties, get_constructor_arguments, instantiate_dataclass)*)
(***************************************************************************)
EXTENDS Integers, Sequences, FiniteSets, TLC

(***************************************************************************)
(* Bounds of the model.                                                    *)
(***************************************************************************)
\* largest num_instances_to_parse tried, and longest raw list supplied
MaxInstances == 3
\* runs of one field's _get_arg_options followed between two changes of its
\* multiple
MaxDerivations == 2

(***************************************************************************)
(* Python values.  Every value is a record of the same shape, so that any  *)
(* two values can be compared: t is the Python type, n the number of an    *)
(* int or a bool, s the text of a str / the member name of an enum member /*)
(* the name of a callable, elems the items of a list or a tuple.           *)
(***************************************************************************)
PyVal(t, n, s, elems) == [t |-> t, n |-> n, s |-> s, elems |-> elems]
PyNone == PyVal("NoneType", 0, "", <<>>)
MISSING == PyVal("MISSING", 0, "", <<>>)
PyInt(n) == PyVal("int", n, "", <<>>)
PyBool(b) == PyVal("bool", IF b THEN 1 ELSE 0, "", <<>>)
PyStr(s) == PyVal("str", 0, s, <<>>)
PyList(elems) == PyVal("list", 0, "", elems)
PyTuple(elems) == PyVal("tuple", 0, "", elems)
\* a member of the enumeration Color
PyEnum(member) == PyVal("Color", 0, member, <<>>)
\* an instance of the nested dataclass Inner
PyInner == PyVal("Inner", 0, "", <<>>)
\* a type or a converter function, named
PyCallable(name) == PyVal("callable", 0, name, <<>>)

PyTrue == PyBool(TRUE)
PyFalse == PyBool(FALSE)
\* Python's `not x` for the values a bool field's default takes
PyNot(v) == PyBool(~(v.t = "bool" /\ v.n = 1))

\* member names of the enumeration Color, in definition order
ColorMembers == <<"RED", "BLUE">>

\* list(s) / tuple(s) of a str: its characters
Chars(s) ==
  IF s = "RED" THEN <<PyStr("R"), PyStr("E"), PyStr("D")>>
  ELSE IF s = "BLUE" THEN <<PyStr("B"), PyStr("L"), PyStr("U"), PyStr("E")>>
  ELSE IF s = "GREEN"
    THEN <<PyStr("G"), PyStr("R"), PyStr("E"), PyStr("E"), PyStr("N")>>
  ELSE <<>>

(***************************************************************************)
(* Dicts are functions from keys (strings) to values.                      *)
(***************************************************************************)
EmptyDict == <<>>
Put(d, k, v) == (k :> v) @@ d

(***************************************************************************)
(* dataclasses.Field: the declared fields the wrapped dataclasses are      *)
(* built from.  type is the annotation; default / default_factory are      *)
(* MISSING when not declared (a dataclass field never declares both);      *)
(* doc is what docstring.get_attribute_docstring finds for the field.      *)
(***************************************************************************)
Field(type, init, default, factory, doc) ==
  [type |-> type, init |-> init, default |-> default,
   default_factory |-> factory, doc |-> doc]

NoDoc == [found |-> FALSE, docstring_below |-> "", comment_above |-> "",
          comment_inline |-> ""]
Doc(below, above, inline) ==
  [found |-> TRUE, docstring_below |-> below, comment_above |-> above,
   comment_inline |-> inline]

\* default_factory is modelled by the value the factory returns
FieldDecls ==
  { Field("int", TRUE, MISSING, MISSING, NoDoc),
    Field("int", TRUE, PyInt(7), MISSING, Doc("", "above", "inline")),
    Field("int", TRUE, MISSING, PyInt(7), Doc("below", "above", "")),
    Field("int", FALSE, PyInt(7), MISSING, NoDoc),
    Field("bool", TRUE, MISSING, MISSING, Doc("", "", "inline")),
    Field("bool", TRUE, PyTrue, MISSING, NoDoc),
    Field("bool", TRUE, PyFalse, MISSING, Doc("", "", "")),
    Field("bool", TRUE, MISSING, PyTrue, NoDoc),
    Field("Color", TRUE, MISSING, MISSING, NoDoc),
    Field("Color", TRUE, PyEnum("BLUE"), MISSING, NoDoc),
    Field("Color", TRUE, MISSING, PyEnum("RED"), NoDoc),
    Field("List[int]", TRUE, MISSING, MISSING, NoDoc),
    Field("List[int]", TRUE, MISSING, PyList(<<PyInt(1), PyInt(2)>>), NoDoc),
    Field("Tuple[int]", TRUE, PyTuple(<<PyInt(1), PyInt(2)>>), MISSING, NoDoc),
    Field("Inner", TRUE, MISSING, MISSING, NoDoc),
    Field("Inner", TRUE, MISSING, PyInner, NoDoc),
    Field("List[Inner]", TRUE, MISSING, MISSING, NoDoc),
    Field("List[Inner]", TRUE, MISSING, PyList(<<>>), NoDoc) }

\* the names of a dataclass's fields, by position of declaration
FieldNames == <<"a", "b">>

\* the declarations the dataclasses of two fields are made of
PairDecls ==
  { Field("int", TRUE, PyInt(7), MISSING, Doc("", "above", "inline")),
    Field("bool", TRUE, MISSING, PyTrue, NoDoc),
    Field("int", FALSE, PyInt(7), MISSING, NoDoc),
    Field("Inner", TRUE, MISSING, MISSING, NoDoc),
    Field("List[Inner]", TRUE, MISSING, MISSING, NoDoc) }

\* dataclasses.fields(dataclass): the wrapped dataclasses tried, of one field
\* and of two
Dataclasses ==
  { <<[name |-> FieldNames[1]] @@ d>> : d \in FieldDecls }
  \cup { <<[name |-> FieldNames[1]] @@ d, [name |-> FieldNames[2]] @@ e>> :
           d \in PairDecls, e \in PairDecls }

\* the prefixes assigned to DataclassWrapper.prefix
Prefixes == {"", "p."}

(***************************************************************************)
(* Type predicates (simple_parsing.utils, dataclasses, enum).              *)
(***************************************************************************)
is_dataclass_type(type) == type = "Inner"
is_tuple_or_list_of_dataclasses_type(type) == type = "List[Inner]"
is_tuple(type) == type = "Tuple[int]"
is_list(type) == type \in {"List[int]", "List[Inner]"}
is_tuple_or_list(type) == is_tuple(type) \/ is_list(type)
is_enum(type) == type = "Color"
get_argparse_container_type(type) == PyCallable("int")

(***************************************************************************)
(* FieldWrapper.  A wrapper is a record: field (the dataclasses.Field),    *)
(* name_prefix, arg_options (the dict object held in _arg_options: its     *)
(* identity id and its content d), docstring, multiple (_multiple) and     *)
(* required (_required: None until assigned).                              *)
(***************************************************************************)
NewFieldWrapper(field, name_prefix, id) ==
  [field |-> field, name_prefix |-> name_prefix,
   arg_options |-> [id |-> id, d |-> EmptyDict],
   docstring |-> field.doc, multiple |-> FALSE, required |-> PyNone]

\* FieldWrapper.name
Name(w) == w.name_prefix \o w.field.name

is_dataclass(w) == is_dataclass_type(w.field.type)
is_tuple_or_list_of_dataclasses(w) ==
  is_tuple_or_list_of_dataclasses_type(w.field.type)

\* FieldWrapper.required (getter)
Required(w) ==
  IF w.required # PyNone
    THEN w.required = PyTrue
    ELSE w.field.default = MISSING /\ w.field.default_factory = MISSING

\* the early returns of _get_arg_options: the options are the empty dict
NotAnArgument(w) ==
  \/ ~w.field.init
  \/ is_dataclass(w)
  \/ is_tuple_or_list_of_dataclasses(w)

\* "type" and "help"
BaseOptions(w) ==
  LET base == Put(EmptyDict, "type", PyCallable(w.field.type))
      doc == w.docstring
  IN IF ~doc.found THEN base
     ELSE IF doc.docstring_below # ""
       THEN Put(base, "help", PyStr(doc.docstring_below))
     ELSE IF doc.comment_above # ""
       THEN Put(base, "help", PyStr(doc.comment_above))
     ELSE IF doc.comment_inline # ""
       THEN Put(base, "help", PyStr(doc.comment_inline))
     ELSE base

\* "default" from the declared default or the factory, else "required"
DefaultOrRequired(f, opts) ==
  IF f.default # MISSING THEN Put(opts, "default", f.default)
  ELSE IF f.default_factory # MISSING
    THEN Put(opts, "default", f.default_factory)
  ELSE Put(opts, "required", PyTrue)

\* whether _get_arg_options calls f.default_factory()
CallsFactory(w) ==
  /\ ~NotAnArgument(w)
  /\ w.field.default = MISSING
  /\ w.field.default_factory # MISSING

\* the branch of an Enum field
EnumOptions(f, opts) ==
  LET o1 == Put(opts, "choices",
                PyList([i \in 1..Len(ColorMembers) |-> PyStr(ColorMembers[i])]))
      o2 == Put(o1, "type", PyCallable("str"))
  IN IF "default" \in DOMAIN o2 /\ is_enum(o2["default"].t)
       THEN Put(o2, "default", PyStr(o2["default"].s))
       ELSE o2

\* the branch of a list or tuple field
ContainerOptions(f, multiple, opts) ==
  LET o1 == Put(opts, "nargs", PyStr("*"))
  IN IF multiple
       THEN Put(o1, "type", PyCallable("_parse_multiple_containers"))
       ELSE Put(o1, "type", get_argparse_container_type(f.type))

\* the branch of a bool field
BoolOptions(f, multiple, opts) ==
  LET o1 == Put(opts, "default",
                IF f.default = MISSING THEN PyFalse ELSE f.default)
      o2 == Put(o1, "type", PyCallable("str2bool"))
      o3 == Put(o2, "nargs", PyStr(IF multiple THEN "*" ELSE "?"))
  IN IF f.default = MISSING THEN Put(o3, "required", PyTrue) ELSE o3

\* the dispatch on the field's type
TypeOptions(f, multiple, opts) ==
  IF is_enum(f.type) THEN EnumOptions(f, opts)
  ELSE IF is_tuple_or_list(f.type) THEN ContainerOptions(f, multiple, opts)
  ELSE IF f.type = "bool" THEN BoolOptions(f, multiple, opts)
  ELSE opts

\* arg_options.get("required", False)
GetRequired(opts) ==
  IF "required" \in DOMAIN opts THEN opts["required"] = PyTrue ELSE FALSE

\* the options before `if multiple:`
OptionsBeforeMultiple(w) ==
  TypeOptions(w.field, w.multiple, DefaultOrRequired(w.field, BaseOptions(w)))

\* MultipleOptions with the default left as it is
MultipleOptionsBareDefault(multiple, opts) ==
  IF ~multiple THEN opts
  ELSE IF GetRequired(opts) THEN Put(opts, "nargs", PyStr("+"))
  ELSE Put(opts, "nargs", PyStr("*"))

\* `if multiple:` at the end of _get_arg_options
MultipleOptions(multiple, opts) ==
  IF ~multiple THEN opts
  ELSE IF GetRequired(opts) THEN Put(opts, "nargs", PyStr("+"))
  ELSE Put(Put(opts, "nargs", PyStr("*")),
           "default", PyList(<<opts["default"]>>))

\* FieldWrapper._get_arg_options
get_arg_options(w) ==
  IF NotAnArgument(w) THEN EmptyDict
  ELSE MultipleOptions(w.multiple, OptionsBeforeMultiple(w))

\* the setter of multiple without the clearing of the dict
set_multiple_keeping_options(w, value) == [w EXCEPT !.multiple = value]

\* FieldWrapper.multiple (setter): the dict is cleared in place
set_multiple(w, value) ==
  [w EXCEPT !.arg_options.d = IF value # w.multiple THEN EmptyDict ELSE @,
            !.multiple = value]

\* the setter of required taking only True
set_required_if_true(w, value) ==
  IF value THEN [w EXCEPT !.required = PyBool(value)] ELSE w

\* FieldWrapper.required (setter)
set_required(w, value) == [w EXCEPT !.required = PyBool(value)]

(***************************************************************************)
(* State.                                                                  *)
(*   wrapper      the DataclassWrapper: dataclass (its declared fields),   *)
(*                fields (the FieldWrappers), multiple, required,          *)
(*                argument_names_prefix                                    *)
(*   derivations, factory_calls                                            *)
(*                per field, since the last change of the field's multiple:*)
(*                the runs of _get_arg_options and the calls of the        *)
(*                field's default_factory                                  *)
(*   returned     per field, the identity of the dict the last read of     *)
(*                arg_options returned since the last change of the field's*)
(*                multiple (0: none yet)                                   *)
(*   last         the last operation, its inputs and its outcome           *)
(***************************************************************************)
VARIABLES wrapper, derivations, factory_calls, returned, last

vars == <<wrapper, derivations, factory_calls, returned, last>>

\* of a read of arg_options: ran, whether _get_arg_options ran; again, whether
\* the field had been read since the last change of its multiple; same,
\* whether the dict returned is the very object that read returned
Observation(op, field, args, n, status, value, ran, again, same) ==
  [op |-> op, field |-> field, args |-> args, n |-> n, status |-> status,
   value |-> value, ran |-> ran, again |-> again, same |-> same]

\* DataclassWrapper.__init__ and __post_init__
NewDataclassWrapper(dataclass, prefix) ==
  [dataclass |-> dataclass,
   fields |-> [i \in 1..Len(dataclass) |->
                 NewFieldWrapper(dataclass[i], prefix, i)],
   multiple |-> FALSE, required |-> FALSE,
   argument_names_prefix |-> prefix]

Zeros == [i \in 1..Len(wrapper.fields) |-> 0]

Init ==
  /\ wrapper \in { NewDataclassWrapper(dc, "") : dc \in Dataclasses }
  /\ derivations = Zeros
  /\ factory_calls = Zeros
  /\ returned = Zeros
  /\ last = Observation("init", 0, EmptyDict, 0, "", <<>>, FALSE, FALSE, FALSE)

FieldIndexes == 1..Len(wrapper.fields)

\* the history of field i after its multiple is assigned value
Since(count, i, value) ==
  IF value # wrapper.fields[i].multiple THEN 0 ELSE count[i]

\* DataclassWrapper.prefix (setter)
SetPrefix(value) ==
  /\ wrapper' = [wrapper EXCEPT
       !.argument_names_prefix = value,
       !.fields = [i \in FieldIndexes |->
                     [wrapper.fields[i] EXCEPT !.name_prefix = value]]]
  /\ last' = Observation("prefix", 0, EmptyDict, 0, "", <<>>, FALSE, FALSE, FALSE)
  /\ UNCHANGED <<derivations, factory_calls, returned>>

\* DataclassWrapper.required (setter)
SetRequired(value) ==
  /\ wrapper' = [wrapper EXCEPT
       !.required = value,
       !.fields = [i \in FieldIndexes |->
                     set_required(wrapper.fields[i], value)]]
  /\ last' = Observation("required", 0, EmptyDict, 0, "", <<>>, FALSE, FALSE, FALSE)
  /\ UNCHANGED <<derivations, factory_calls, returned>>

\* DataclassWrapper.multiple (setter)
SetMultiple(value) ==
  /\ wrapper' = [wrapper EXCEPT
       !.fields = [i \in FieldIndexes |->
                     set_multiple(wrapper.fields[i], value)],
       !.multiple = value]
  /\ derivations' = [i \in FieldIndexes |-> Since(derivations, i, value)]
  /\ factory_calls' = [i \in FieldIndexes |-> Since(factory_calls, i, value)]
  /\ returned' = [i \in FieldIndexes |-> Since(returned, i, value)]
  /\ last' = Observation("multiple", 0, EmptyDict, 0, "", <<>>, FALSE, FALSE, FALSE)

\* FieldWrapper.multiple (setter), assigned on one field directly
FieldSetMultiple(i, value) ==
  /\ wrapper' = [wrapper EXCEPT
       !.fields[i] = set_multiple(wrapper.fields[i], value)]
  /\ derivations' = [derivations EXCEPT ![i] = Since(derivations, i, value)]
  /\ factory_calls' =
       [factory_calls EXCEPT ![i] = Since(factory_calls, i, value)]
  /\ returned' = [returned EXCEPT ![i] = Since(returned, i, value)]
  /\ last' = Observation("field.multiple", i, EmptyDict, 0, "", <<>>,
                         FALSE, FALSE, FALSE)

\* the identity of a newly allocated dict: one no live reference holds
NewId ==
  LET live == { wrapper.fields[i].arg_options.id : i \in FieldIndexes }
              \cup { returned[i] : i \in FieldIndexes }
  IN CHOOSE n \in 1..(2 * Len(wrapper.fields) + 1) :
       /\ n \notin live
       /\ \A m \in 1..(n - 1) : m \in live

\* a getter of arg_options that never finds the dict cached
NeverCached(w) == FALSE

\* whether the arg_options getter returns the cached dict
Cached(w) == w.arg_options.d # EmptyDict

\* FieldWrapper.arg_options (getter): the dict object it returns
arg_options(w, id) ==
  IF Cached(w) THEN w.arg_options
  ELSE [id |-> id, d |-> get_arg_options(w)]

\* a read of the arg_options of field i
ReadArgOptions(i) ==
  LET w == wrapper.fields[i]
      ran == ~Cached(w)
      got == arg_options(w, NewId)
  IN /\ derivations[i] < MaxDerivations
     /\ wrapper' = [wrapper EXCEPT !.fields[i].arg_options = got]
     /\ derivations' = [derivations EXCEPT ![i] = IF ran THEN @ + 1 ELSE @]
     /\ factory_calls' =
          [factory_calls EXCEPT
             ![i] = IF ran /\ CallsFactory(w) THEN @ + 1 ELSE @]
     /\ returned' = [returned EXCEPT ![i] = got.id]
     /\ last' = Observation("arg_options", i, EmptyDict, 0, "ok", got.d,
                            ran, returned[i] # 0, returned[i] = got.id)

(***************************************************************************)
(* DataclassWrapper.get_constructor_arguments.  An outcome is a record:    *)
(* status is "ok" or the exception raised, value what is returned (nothing *)
(* when an exception is raised).                                           *)
(***************************************************************************)
Return(value) == [status |-> "ok", value |-> value]
Raise(exception) == [status |-> exception, value |-> <<>>]

\* InstancesAgree with the assertion of multiple mode off by one
InstancesAgreeOffByOne(multiple, num_instances_to_parse) ==
  IF multiple THEN num_instances_to_parse >= 1
  ELSE num_instances_to_parse = 1

\* the two assertions on num_instances_to_parse
InstancesAgree(multiple, num_instances_to_parse) ==
  IF multiple THEN num_instances_to_parse > 1
  ELSE num_instances_to_parse = 1

\* DistributedValue with every instance given the first item
DistributedValueAlwaysFirst(value, i, num_instances_to_parse) ==
  IF value.t # "list" THEN Raise("AssertionError")
  ELSE IF Len(value.elems) = 1 THEN Return(value.elems[1])
  ELSE IF Len(value.elems) = num_instances_to_parse
    THEN Return(value.elems[1])
  ELSE Raise("InconsistentArgumentError")

\* DistributedValue taking the first items of a list that is too long
DistributedValueTruncating(value, i, num_instances_to_parse) ==
  IF value.t # "list" THEN Raise("AssertionError")
  ELSE IF Len(value.elems) = 1 THEN Return(value.elems[1])
  ELSE IF Len(value.elems) >= num_instances_to_parse
    THEN Return(value.elems[i + 1])
  ELSE Raise("InconsistentArgumentError")

\* `if self.multiple:` in the loop: the value of instance i (from 0)
DistributedValue(value, i, num_instances_to_parse) ==
  IF value.t # "list" THEN Raise("AssertionError")
  ELSE IF Len(value.elems) = 1 THEN Return(value.elems[1])
  ELSE IF Len(value.elems) = num_instances_to_parse
    THEN Return(value.elems[i + 1])
  ELSE Raise("InconsistentArgumentError")

\* the fields the loop of get_constructor_arguments does not `continue` on
Parsed(w) == w.field.init /\ ~is_dataclass(w)

\* the body of the loop over the fields, for a field that is not skipped
InstanceArgument(dw, w, args_dict, i, num_instances_to_parse) ==
  IF is_tuple_or_list_of_dataclasses(w) THEN Raise("AssertionError")
  ELSE IF Name(w) \notin DOMAIN args_dict THEN Raise("AssertionError")
  ELSE IF dw.multiple
    THEN DistributedValue(args_dict[Name(w)], i, num_instances_to_parse)
  ELSE Return(args_dict[Name(w)])

\* the loop over the fields from field k on: instance_arguments of instance i
RECURSIVE InstanceArguments(_, _, _, _, _, _)
InstanceArguments(dw, args_dict, i, num_instances_to_parse, k, acc) ==
  IF k > Len(dw.fields) THEN Return(acc)
  ELSE LET w == dw.fields[k]
           r == InstanceArgument(dw, w, args_dict, i, num_instances_to_parse)
       IN IF ~Parsed(w)
            THEN InstanceArguments(dw, args_dict, i, num_instances_to_parse,
                                   k + 1, acc)
          ELSE IF r.status # "ok" THEN r
          ELSE InstanceArguments(dw, args_dict, i, num_instances_to_parse,
                                 k + 1, Put(acc, w.field.name, r.value))

\* the loop over the instances from instance i on
RECURSIVE ConstructorArguments(_, _, _, _, _)
ConstructorArguments(dw, args_dict, num_instances_to_parse, i, acc) ==
  IF i >= num_instances_to_parse THEN Return(acc)
  ELSE LET r == InstanceArguments(dw, args_dict, i, num_instances_to_parse,
                                  1, EmptyDict)
       IN IF r.status # "ok" THEN r
          ELSE ConstructorArguments(dw, args_dict, num_instances_to_parse,
                                    i + 1, Append(acc, r.value))

get_constructor_arguments(dw, args_dict, num_instances_to_parse) ==
  IF ~InstancesAgree(dw.multiple, num_instances_to_parse)
    THEN Raise("AssertionError")
  ELSE ConstructorArguments(dw, args_dict, num_instances_to_parse, 0, <<>>)

(***************************************************************************)
(* DataclassWrapper.instantiate_dataclass.                                 *)
(***************************************************************************)
\* f.type[value] of an Enum field
EnumArgument(value) ==
  IF value.t = "str" /\ \E m \in 1..Len(ColorMembers) : ColorMembers[m] = value.s
    THEN Return(PyEnum(value.s))
  ELSE IF value.t = "list" THEN Raise("TypeError")
  ELSE Raise("KeyError")

\* tuple(value) / list(value): container is "tuple" or "list"
ContainerArgument(container, value) ==
  IF value.t \in {"list", "tuple"}
    THEN Return(PyVal(container, 0, "", value.elems))
  ELSE IF value.t = "str" THEN Return(PyVal(container, 0, "", Chars(value.s)))
  ELSE Raise("TypeError")

\* BoolArgument with the toggle of an absent value forgotten
BoolArgumentNoToggle(f, value) ==
  LET default_value == IF f.default = MISSING THEN PyFalse ELSE f.default
  IN IF value = PyNone THEN Return(default_value)
     ELSE IF value.t = "bool" THEN Return(value)
     ELSE Raise("RuntimeError")

\* the branch of a bool field
BoolArgument(f, value) ==
  LET default_value == IF f.default = MISSING THEN PyFalse ELSE f.default
  IN IF value = PyNone THEN Return(PyNot(default_value))
     ELSE IF value.t = "bool" THEN Return(value)
     ELSE Raise("RuntimeError")

\* ConstructorArgument without the assertion on containers of dataclasses
ConstructorArgumentNoAssertion(w, args_dict) ==
  LET f == w.field
  IN IF f.name \notin DOMAIN args_dict THEN Raise("KeyError")
     ELSE IF is_enum(f.type) THEN EnumArgument(args_dict[f.name])
     ELSE IF is_tuple(f.type) THEN ContainerArgument("tuple", args_dict[f.name])
     ELSE IF is_list(f.type) THEN ContainerArgument("list", args_dict[f.name])
     ELSE IF f.type = "bool" THEN BoolArgument(f, args_dict[f.name])
     ELSE Return(args_dict[f.name])

\* the body of the loop over the fields, for a field with init
ConstructorArgument(w, args_dict) ==
  LET f == w.field
  IN IF f.name \notin DOMAIN args_dict THEN Raise("KeyError")
     ELSE IF is_tuple_or_list_of_dataclasses(w) THEN Raise("AssertionError")
     ELSE IF is_enum(f.type) THEN EnumArgument(args_dict[f.name])
     ELSE IF is_tuple(f.type) THEN ContainerArgument("tuple", args_dict[f.name])
     ELSE IF is_list(f.type) THEN ContainerArgument("list", args_dict[f.name])
     ELSE IF f.type = "bool" THEN BoolArgument(f, args_dict[f.name])
     ELSE Return(args_dict[f.name])

\* the loop over the fields from field k on: constructor_args
RECURSIVE ConstructorArgs(_, _, _, _)
ConstructorArgs(dw, args_dict, k, acc) ==
  IF k > Len(dw.fields) THEN Return(acc)
  ELSE LET w == dw.fields[k]
           r == ConstructorArgument(w, args_dict)
       IN IF ~w.field.init THEN ConstructorArgs(dw, args_dict, k + 1, acc)
          ELSE IF r.status # "ok" THEN r
          ELSE ConstructorArgs(dw, args_dict, k + 1,
                               Put(acc, w.field.name, r.value))

\* the instance is modelled by the keyword arguments it is constructed with
instantiate_dataclass(dw, args_dict) ==
  ConstructorArgs(dw, args_dict, 1, EmptyDict)

(***************************************************************************)
(* The calls made on the wrapper and their inputs.                         *)
(***************************************************************************)
\* a list of k distinct items
ListOfLen(k) == PyList([j \in 1..k |-> PyInt(10 * j)])

\* raw parsed values handed to get_constructor_arguments
RawValues == {PyNone} \cup { ListOfLen(k) : k \in 0..MaxInstances }

\* values of an argument dict handed to instantiate_dataclass
InstanceValues ==
  { PyNone, PyTrue, PyFalse, PyInt(5), PyStr("RED"), PyStr("GREEN"),
    PyList(<<PyInt(1), PyInt(2)>>), PyEnum("RED"), PyInner }

\* the dicts with some of the keys, and values among the given ones
DictsOver(keys, values) == UNION { [K -> values] : K \in SUBSET keys }

\* what the parsing engine yields when no token is supplied: each argument's
\* "default", under the name the argument was registered with
ParsedDefaults(dw) ==
  LET registered == { i \in 1..Len(dw.fields) :
                        "default" \in DOMAIN arg_options(dw.fields[i], 0).d }
      index(name) == CHOOSE i \in registered : Name(dw.fields[i]) = name
  IN [name \in { Name(dw.fields[i]) : i \in registered } |->
        arg_options(dw.fields[index(name)], 0).d["default"]]

\* a call of get_constructor_arguments
GetConstructorArguments(args_dict, num_instances_to_parse) ==
  LET r == get_constructor_arguments(wrapper, args_dict, num_instances_to_parse)
  IN /\ last' = Observation("get_constructor_arguments", 0, args_dict,
                            num_instances_to_parse, r.status, r.value,
                            FALSE, FALSE, FALSE)
     /\ UNCHANGED <<wrapper, derivations, factory_calls, returned>>

\* a call of instantiate_dataclass
InstantiateDataclass(args_dict) ==
  LET r == instantiate_dataclass(wrapper, args_dict)
  IN /\ last' = Observation("instantiate_dataclass", 0, args_dict, 0,
                            r.status, r.value, FALSE, FALSE, FALSE)
     /\ UNCHANGED <<wrapper, derivations, factory_calls, returned>>

\* the argument dicts the last call of get_constructor_arguments returned
Produced ==
  IF last.op = "get_constructor_arguments" /\ last.status = "ok"
    THEN { last.value[i] : i \in 1..Len(last.value) }
    ELSE {}

\* assignments of multiple interleaved with reads of arg_options
Next ==
  \/ \E v \in BOOLEAN : SetMultiple(v)
  \/ \E i \in FieldIndexes, v \in BOOLEAN : FieldSetMultiple(i, v)
  \/ \E i \in FieldIndexes : ReadArgOptions(i)

Spec == Init /\ [][Next]_vars


\* assignments to the properties of the DataclassWrapper
NextRecord ==
  \/ \E v \in Prefixes : SetPrefix(v)
  \/ \E v \in BOOLEAN : SetRequired(v)
  \/ \E v \in BOOLEAN : SetMultiple(v)

SpecRecord == Init /\ [][NextRecord]_vars

\* the names the arguments of the wrapper's fields are registered with
ArgumentNames == { Name(wrapper.fields[i]) : i \in FieldIndexes }

\* the names of the wrapped dataclass's fields
DeclaredNames == { wrapper.fields[i].field.name : i \in FieldIndexes }

\* the wrapper set up (prefix, multiple) and arguments extracted from raw
\* parsed values
NextArguments ==
  \/ \E v \in Prefixes : SetPrefix(v)
  \/ \E v \in BOOLEAN : SetMultiple(v)
  \/ \E args_dict \in DictsOver(ArgumentNames, RawValues)
                        \cup {ParsedDefaults(wrapper)},
        n \in 0..MaxInstances :
       GetConstructorArguments(args_dict, n)

SpecArguments == Init /\ [][NextArguments]_vars

\* the wrapper set up (prefix, multiple) and instances made of argument dicts
NextInstances ==
  \/ \E v \in Prefixes : SetPrefix(v)
  \/ \E v \in BOOLEAN : SetMultiple(v)
  \/ \E args_dict \in DictsOver(DeclaredNames, InstanceValues) :
       InstantiateDataclass(args_dict)

SpecInstances == Init /\ [][NextInstances]_vars

\* the wrapper set up (prefix, multiple), the arguments extracted from what
\* the parsing engine yields when no token is supplied, and instances made
\* of them
NextDefaults ==
  \/ \E v \in Prefixes : SetPrefix(v)
  \/ \E v \in BOOLEAN : SetMultiple(v)
  \/ \E n \in 0..MaxInstances :
       GetConstructorArguments(ParsedDefaults(wrapper), n)
  \/ \E args_dict \in Produced : InstantiateDataclass(args_dict)

SpecDefaults == Init /\ [][NextDefaults]_vars

(***************************************************************************)
(* Properties of get_constructor_arguments (under SpecArguments).          *)
(***************************************************************************)
Extracted == last.op = "get_constructor_arguments"

\* the fields of the wrapper that are constructible and not nested
ParsedFields == { k \in FieldIndexes : Parsed(wrapper.fields[k]) }

\* field k has a raw value and it is a list
HasList(k) ==
  /\ Name(wrapper.fields[k]) \in DOMAIN last.args
  /\ last.args[Name(wrapper.fields[k])].t = "list"

RawLen(k) == Len(last.args[Name(wrapper.fields[k])].elems)

\* field k is one get_constructor_arguments distributes without failing
Distributable(k) ==
  /\ ~is_tuple_or_list_of_dataclasses(wrapper.fields[k])
  /\ HasList(k)
  /\ RawLen(k) \in {1, last.n}

\* C1: in multiple mode with N > 1 instances, when every constructible,
\* non-nested field has a raw list of length 1 or N the call returns, and
\* whenever it returns it returns exactly N dicts, dict i mapping the declared
\* name of each such field to the single item of a list of length 1 and to
\* item i of a list of length N.
C1_BroadcastOrDistribute ==
  (Extracted /\ wrapper.multiple /\ last.n > 1) =>
    /\ (\A k \in ParsedFields : Distributable(k)) => last.status = "ok"
    /\ last.status = "ok" =>
         /\ Len(last.value) = last.n
         /\ \A k \in ParsedFields : \A i \in 0..(last.n - 1) :
              LET raw == last.args[Name(wrapper.fields[k])]
                  got == last.value[i + 1]
                  name == wrapper.fields[k].field.name
              IN /\ HasList(k)
                 /\ name \in DOMAIN got
                 /\ Len(raw.elems) = 1 => got[name] = raw.elems[1]
                 /\ Len(raw.elems) = last.n => got[name] = raw.elems[i + 1]

\* three instances, under a prefix: one field broadcast, one distributed
C1_Witness ==
  /\ Extracted /\ wrapper.multiple /\ last.n = 3 /\ last.status = "ok"
  /\ wrapper.argument_names_prefix = "p."
  /\ \E k \in ParsedFields : RawLen(k) = 1
  /\ \E k \in ParsedFields : RawLen(k) = 3

\* the plain fields whose raw list has a length that is neither 1 nor N
Misfits ==
  { k \in ParsedFields :
      /\ ~is_tuple_or_list_of_dataclasses(wrapper.fields[k])
      /\ HasList(k)
      /\ RawLen(k) \notin {1, last.n} }

FirstMisfit == CHOOSE k \in Misfits : \A j \in Misfits : k <= j

C3_InstanceCountMatchesMode ==
  Extracted =>
    LET matches == IF wrapper.multiple THEN last.n > 1 ELSE last.n = 1
    IN /\ last.status = "ok" => matches
       /\ ~matches => last.status = "AssertionError" /\ last.value = <<>>

\* multiple was assigned true and one instance is asked for
C3_Witness ==
  /\ Extracted /\ wrapper.multiple /\ last.n = 1
  /\ last.status = "AssertionError"
  /\ ParsedFields # {}
  /\ \A k \in ParsedFields : Distributable(k)

(***************************************************************************)
(* Properties of instantiate_dataclass (under SpecInstances).              *)
(***************************************************************************)
Instantiated == last.op = "instantiate_dataclass"

\* the fields of the wrapper that are constructible
InitFields == { k \in FieldIndexes : wrapper.fields[k].field.init }

DeclaredName(k) == wrapper.fields[k].field.name

C6_NestedKindsRejected ==
  (/\ Instantiated
   /\ \E k \in InitFields :
        is_dataclass(wrapper.fields[k])
          \/ is_tuple_or_list_of_dataclasses(wrapper.fields[k])) =>
    last.status # "ok"

\* C6 amended: instantiate_dataclass fails, making no instance, on a dataclass
\* that has a constructible field that is a list or tuple of dataclasses; a
\* constructible field that is a nested dataclass is not rejected, its value
\* in the argument dict is passed to the constructor unchanged.
C6_OnlyContainersOfDataclassesRejected ==
  Instantiated =>
    /\ (\E k \in InitFields :
          is_tuple_or_list_of_dataclasses(wrapper.fields[k])) =>
         last.status # "ok" /\ last.value = <<>>
    /\ (\A k \in InitFields :
          is_dataclass(wrapper.fields[k])
            /\ DeclaredName(k) \in DOMAIN last.args) =>
         last.status = "ok"
    /\ last.status = "ok" =>
         \A k \in InitFields :
           is_dataclass(wrapper.fields[k]) =>
             last.value[DeclaredName(k)] = last.args[DeclaredName(k)]

\* a list of dataclasses reaches instantiate_dataclass after a nested
\* dataclass that was given a value
C6_Witness ==
  /\ Instantiated
  /\ InitFields = {1, 2}
  /\ is_dataclass(wrapper.fields[1])
  /\ is_tuple_or_list_of_dataclasses(wrapper.fields[2])
  /\ DOMAIN last.args = {DeclaredName(1), DeclaredName(2)}
  /\ last.status = "AssertionError"

(***************************************************************************)
(* The round trip of the defaults (under SpecDefaults, where the raw       *)
(* values are each argument's "default" and the argument dicts are those   *)
(* get_constructor_arguments returned).                                    *)
(***************************************************************************)
\* every constructible field is a scalar, a bool, an enumeration or a list
\* or tuple of scalars, and declares a default value or a default factory
AllDefaulted ==
  \A k \in InitFields :
    LET f == wrapper.fields[k].field
    IN /\ f.type \in {"int", "bool", "Color", "List[int]", "Tuple[int]"}
       /\ f.default # MISSING \/ f.default_factory # MISSING

\* the default a field declares, by value or by factory
DeclaredDefault(f) ==
  IF f.default # MISSING THEN f.default ELSE f.default_factory

\* C10: for a dataclass whose constructible fields all declare a default,
\* get_constructor_arguments on the defaults of the derived options returns
\* one argument dict per instance (1 when multiple is false, any N > 1 when
\* it is true), and instantiate_dataclass makes of each an instance whose
\* every field equals its declared default.
C10_DefaultRoundTrip ==
  AllDefaulted =>
    /\ (/\ Extracted
        /\ last.args = ParsedDefaults(wrapper)
        /\ IF wrapper.multiple THEN last.n > 1 ELSE last.n = 1) =>
         last.status = "ok" /\ Len(last.value) = last.n
    /\ Instantiated =>
         /\ last.status = "ok"
         /\ \A k \in InitFields :
              last.value[DeclaredName(k)] =
                DeclaredDefault(wrapper.fields[k].field)

(***************************************************************************)
(* Properties of the derived options and their cache (under Spec).         *)
(***************************************************************************)
Read == last.op = "arg_options"

\* C4: the options held for a field whose multiple is true, when not empty,
\* are finalized whatever the field's type: nargs is "+" if they have
\* required = True; otherwise nargs is "*" and default is a list of the one
\* default the derivation had before the finalization.
C4_MultipleFinalization ==
  \A i \in FieldIndexes :
    LET w == wrapper.fields[i]
        opts == w.arg_options.d
        before == OptionsBeforeMultiple(w)
    IN (w.multiple /\ Cached(w)) =>
         IF "required" \in DOMAIN opts /\ opts["required"] = PyTrue
           THEN opts["nargs"] = PyStr("+")
           ELSE /\ opts["nargs"] = PyStr("*")
                /\ "default" \in DOMAIN before
                /\ opts["default"] = PyList(<<before["default"]>>)

\* an enumeration with a default member, read under multiple
C4_Witness ==
  /\ Read
  /\ wrapper.fields[last.field].multiple
  /\ wrapper.fields[last.field].field.type = "Color"
  /\ "required" \notin DOMAIN last.value
  /\ last.value["default"] = PyList(<<PyStr("BLUE")>>)
  /\ last.value["nargs"] = PyStr("*")

\* C7: whatever was assigned to multiple, on a field or through the wrapper,
\* a read of arg_options returns the options _get_arg_options gives for the
\* field's current multiple, and the options held are never those of another
\* value of multiple.
C7_ReadsFollowMultiple ==
  /\ \A i \in FieldIndexes :
       Cached(wrapper.fields[i]) =>
         wrapper.fields[i].arg_options.d = get_arg_options(wrapper.fields[i])
  /\ Read => last.value = get_arg_options(wrapper.fields[last.field])

\* a field read, its multiple changed to true, and read again: the dict
\* first allocated for the field has been let go and its identity taken again
C7_Witness ==
  /\ Read /\ last.ran
  /\ Len(wrapper.fields) = 1
  /\ wrapper.fields[1].multiple
  /\ wrapper.fields[1].arg_options.id = 1
  /\ last.value # EmptyDict
  /\ last.value["nargs"] = PyStr("*")

\* C8 as stated: for every field, a read that follows another with no change
\* of multiple in between returns the very dict the earlier read returned and
\* does not run _get_arg_options; _get_arg_options runs at most once between
\* two changes of multiple.
C8_EveryFieldCached ==
  /\ \A i \in FieldIndexes : derivations[i] <= 1
  /\ (Read /\ last.again) => last.same /\ ~last.ran

\* C8 amended: that holds for every field whose options are not empty, and no
\* field's default_factory is called more than once between two changes of
\* multiple; for a field whose options are empty (not constructible, a nested
\* dataclass, a list or tuple of dataclasses) every read runs
\* _get_arg_options again and returns a new empty dict, and the factory is
\* never called.
C8_NonEmptyOptionsCached ==
  /\ \A i \in FieldIndexes :
       /\ factory_calls[i] <= 1
       /\ get_arg_options(wrapper.fields[i]) # EmptyDict => derivations[i] <= 1
       /\ get_arg_options(wrapper.fields[i]) = EmptyDict => factory_calls[i] = 0
  /\ (Read /\ last.again /\ last.value # EmptyDict) => last.same /\ ~last.ran
  /\ (Read /\ last.value = EmptyDict) => last.ran /\ ~last.same

\* a field with a default factory read a second time
C8_Witness ==
  /\ Read /\ last.again /\ last.same /\ ~last.ran
  /\ last.value # EmptyDict
  /\ factory_calls[last.field] = 1

(***************************************************************************)
(* Properties of the cascading assignments (under SpecRecord).             *)
(***************************************************************************)
\* C9: after any assignments to the wrapper's prefix, required and multiple,
\* every field's name prefix and multiple are the wrapper's, the fields are
\* those of the dataclass in the order declared, and once required has been
\* assigned (the last assignment was to required, or required is True, or a
\* field holds an override) every field's required is the wrapper's, whatever
\* default the field declares.
C9_Cascade ==
  /\ Len(wrapper.fields) = Len(wrapper.dataclass)
  /\ \A i \in FieldIndexes :
       /\ wrapper.fields[i].field = wrapper.dataclass[i]
       /\ wrapper.fields[i].name_prefix = wrapper.argument_names_prefix
       /\ wrapper.fields[i].multiple = wrapper.multiple
  /\ (\/ last.op = "required"
      \/ wrapper.required
      \/ \E i \in FieldIndexes : wrapper.fields[i].required # PyNone) =>
       \A i \in FieldIndexes : Required(wrapper.fields[i]) = wrapper.required

\* required assigned False over a field that declares no default, under a
\* prefix and multiple
C9_Witness ==
  /\ last.op = "required" /\ ~wrapper.required
  /\ wrapper.argument_names_prefix = "p." /\ wrapper.multiple
  /\ Len(wrapper.fields) = 2
  /\ wrapper.fields[1].field.default = MISSING
  /\ wrapper.fields[1].field.default_factory = MISSING
  /\ wrapper.fields[2].field.default # MISSING

====
